---- MODULE Spec2Model ----
(***************************************************************************)
(* A model of three ESLint rules: camelcase (lib/rules/camelcase.js),      *)
(* new-parens and padded-blocks (lib/rules/new-parens.js) and valid-typeof *)
(* (lib/rules/valid-typeof.js).  A rule instance is the closure returned   *)
(* by create(context); its state is the closure's variables, and the       *)
(* dispatcher calls its handlers once per visited node.                    *)
(*                                                                         *)
(* Strings are sequences of one-character strings, so that the regular     *)
(* expressions of the rule are computed character by character.            *)
(***************************************************************************)
EXTENDS Integers, Sequences, FiniteSets, TLC

\* The number of handler calls one rule instance receives in a run.
MaxVisits == 3

U == "_"

Min(S) == CHOOSE x \in S : \A y \in S : x <= y

\*--------------------------------------------------------------------------
\* Strings
\*--------------------------------------------------------------------------

LOWER == <<"a","b","c","d","e","f","g","h","i","j","k","l","m",
           "n","o","p","q","r","s","t","u","v","w","x","y","z">>
UPPER == <<"A","B","C","D","E","F","G","H","I","J","K","L","M",
           "N","O","P","Q","R","S","T","U","V","W","X","Y","Z">>

\* String.prototype.toUpperCase on one character
toUpperCaseChar(c) ==
    IF \E k \in DOMAIN LOWER : LOWER[k] = c
    THEN UPPER[CHOOSE k \in DOMAIN LOWER : LOWER[k] = c]
    ELSE c

\* String.prototype.toUpperCase
toUpperCase(s) == [k \in DOMAIN s |-> toUpperCaseChar(s[k])]

\* s[a..b] (1-based, inclusive) consists of underscores only: _*
AllUnderscore(s, a, b) == \A k \in a..b : s[k] = U

\* s[a..b] (1-based, inclusive) contains no underscore: [^_]*
NoUnderscore(s, a, b) == \A k \in a..b : s[k] # U

\* The lexicographically greatest triple of a set: the first match a
\* backtracking matcher finds for three greedy quantifiers in a row.
GreedyFirst(C) ==
    CHOOSE c \in C : \A d \in C :
        \/ c[1] > d[1]
        \/ c[1] = d[1] /\ c[2] > d[2]
        \/ c[1] = d[1] /\ c[2] = d[2] /\ c[3] >= d[3]

\*--------------------------------------------------------------------------
\* camelcase: the regular expressions
\*--------------------------------------------------------------------------

\* /^_*[^_]+(_+)/ : the pattern with its lookahead (?!_*$) left out
NON_SURROUNDING_UNDERSCORE_NoLookahead(s, start) ==
    LET n == Len(s)
        C == {c \in (0..n) \X (1..n) \X (1..n) :
                /\ c[1] + c[2] + c[3] <= n
                /\ AllUnderscore(s, 1, c[1])
                /\ NoUnderscore(s, c[1] + 1, c[1] + c[2])
                /\ AllUnderscore(s, c[1] + c[2] + 1, c[1] + c[2] + c[3])}
    IN  IF start # 0 \/ C = {} THEN -1
        ELSE LET c == GreedyFirst(C) IN c[1] + c[2] + c[3]

\* One match attempt of /^_*[^_]+(_+)(?!_*$)/ at the 0-based position
\* start of s: the 0-based end of the match, or -1.  c[1], c[2], c[3] are
\* the lengths taken by _*, [^_]+ and (_+); ^ holds at position 0 only.
NON_SURROUNDING_UNDERSCORE(s, start) ==
    LET n == Len(s)
        C == {c \in (0..n) \X (1..n) \X (1..n) :
                /\ c[1] + c[2] + c[3] <= n
                /\ AllUnderscore(s, 1, c[1])
                /\ NoUnderscore(s, c[1] + 1, c[1] + c[2])
                /\ AllUnderscore(s, c[1] + c[2] + 1, c[1] + c[2] + c[3])
                /\ ~AllUnderscore(s, c[1] + c[2] + c[3] + 1, n)}
    IN  IF start # 0 \/ C = {} THEN -1
        ELSE LET c == GreedyFirst(C) IN c[1] + c[2] + c[3]

\* NON_SURROUNDING_UNDERSCORE.test(s) for a regular expression with the g
\* flag whose lastIndex is li: the search starts at li, and the call leaves
\* lastIndex at the end of the match, or at 0 when nothing matches.
test(s, li) ==
    IF li > Len(s) THEN [matched |-> FALSE, lastIndex |-> 0]
    ELSE LET starts == {i \in li..Len(s) : NON_SURROUNDING_UNDERSCORE(s, i) # -1}
         IN  IF starts = {} THEN [matched |-> FALSE, lastIndex |-> 0]
             ELSE [matched |-> TRUE,
                   lastIndex |-> NON_SURROUNDING_UNDERSCORE(s, Min(starts))]

\* One match attempt of /^(_*[^_]+)_+(.)(?:(?!_*$)|$)/ at the 0-based
\* position start of s: <<length of the prefix group, 1-based index of the
\* letter group>>, or <<>> when there is no match.
SNAKE_LETTER(s, start) ==
    LET n == Len(s)
        C == {c \in (0..n) \X (1..n) \X (1..n) :
                /\ c[1] + c[2] + c[3] + 1 <= n
                /\ AllUnderscore(s, 1, c[1])
                /\ NoUnderscore(s, c[1] + 1, c[1] + c[2])
                /\ AllUnderscore(s, c[1] + c[2] + 1, c[1] + c[2] + c[3])
                /\ \/ ~AllUnderscore(s, c[1] + c[2] + c[3] + 2, n)
                   \/ c[1] + c[2] + c[3] + 1 = n}
    IN  IF start # 0 \/ C = {} THEN <<>>
        ELSE LET c == GreedyFirst(C) IN <<c[1] + c[2], c[1] + c[2] + c[3] + 1>>

\*--------------------------------------------------------------------------
\* camelcase: helpers of create()
\*--------------------------------------------------------------------------

isUpperCase(name) == name = toUpperCase(name)

\* isSnakeCase(name) when NON_SURROUNDING_UNDERSCORE.lastIndex is li: the
\* value returned and the lastIndex the call leaves behind.  test() is the
\* left operand of &&, so it always runs.
isSnakeCase(name, li) ==
    LET t == test(name, li)
    IN  [result |-> t.matched /\ ~isUpperCase(name), lastIndex |-> t.lastIndex]

\* name.replace(SNAKE_LETTER, toUpperCase) from the 0-based position from
\* on: replace starts a g-flagged expression at lastIndex 0 and replaces
\* every match it finds, each search starting where the last match ended.
RECURSIVE replaceFrom(_, _)
replaceFrom(s, from) ==
    LET starts == {i \in from..Len(s) : SNAKE_LETTER(s, i) # <<>>}
    IN  IF starts = {} THEN SubSeq(s, from + 1, Len(s))
        ELSE LET i == Min(starts)
                 m == SNAKE_LETTER(s, i)
             IN  SubSeq(s, from + 1, i)
                   \o SubSeq(s, i + 1, i + m[1])
                   \o <<toUpperCaseChar(s[i + m[2]])>>
                   \o replaceFrom(s, i + m[2])

snakeToCamelCase(name) == replaceFrom(name, 0)

\*--------------------------------------------------------------------------
\* The syntax tree the dispatcher walks.  A node is its index in AST;
\* 0 stands for an absent child.  The tree is that of the program
\*
\*   var _x, _x_, x_, __x, x__, __x__, x_y, _x_y, _x_y_, __x__y__, x_y_,
\*       x_y__, x__y__, FOO_BAR, foo_bar, _foo_bar_baz_;
\*   x_y(x_y_);
\*   a_b.c_d;
\*   o.p_q = r.p_q;
\*   s.t_u = 1;
\*   w = y.z_a;
\*   var { k_l: m_n } = q;
\*   var { i_j } = q;
\*   ({ b_c: 1 });
\*--------------------------------------------------------------------------

FalseNames ==
    << <<U,"x">>, <<U,"x",U>>, <<"x",U>>, <<U,U,"x">>, <<"x",U,U>>,
       <<U,U,"x",U,U>> >>

TrueNames ==
    << <<"x",U,"y">>, <<U,"x",U,"y">>, <<U,"x",U,"y",U>>,
       <<U,U,"x",U,U,"y",U,U>>, <<"x",U,"y",U>>, <<"x",U,"y",U,U>>,
       <<"x",U,U,"y",U,U>> >>

FOO_BAR == <<"F","O","O",U,"B","A","R">>
foo_bar == <<"f","o","o",U,"b","a","r">>
foo_bar_baz == <<U,"f","o","o",U,"b","a","r",U,"b","a","z",U>>

DeclNames == FalseNames \o TrueNames \o <<FOO_BAR, foo_bar, foo_bar_baz>>

NDecl == Len(DeclNames)

Node(type, parent) ==
    [type |-> type, parent |-> parent, name |-> <<>>,
     object |-> 0, property |-> 0, left |-> 0, right |-> 0,
     key |-> 0, value |-> 0]

Ident(name, parent) == [Node("Identifier", parent) EXCEPT !.name = name]

Member(parent, object, property) ==
    [Node("MemberExpression", parent) EXCEPT !.object = object, !.property = property]

Assign(parent, left, right) ==
    [Node("AssignmentExpression", parent) EXCEPT !.left = left, !.right = right]

Prop(parent, key, value) ==
    [Node("Property", parent) EXCEPT !.key = key, !.value = value]

\* nodes 1 .. 2 + 2 * NDecl: the first declaration
DeclNodes ==
    [i \in 1..(2 + 2 * NDecl) |->
        IF i = 1 THEN Node("Program", 0)
        ELSE IF i = 2 THEN Node("VariableDeclaration", 1)
        ELSE IF i <= 2 + NDecl THEN Node("VariableDeclarator", 2)
        ELSE Ident(DeclNames[i - 2 - NDecl], i - NDecl)]

B == 2 + 2 * NDecl

\* the statements after it, at B + 1, B + 2, ...
RestNodes ==
    << Node("ExpressionStatement", 1),              \* B+1   x_y(x_y_);
       Node("CallExpression", B + 1),               \* B+2
       Ident(<<"x",U,"y">>, B + 2),                 \* B+3   callee
       Ident(<<"x",U,"y",U>>, B + 2),               \* B+4   argument
       Node("ExpressionStatement", 1),              \* B+5   a_b.c_d;
       Member(B + 5, B + 7, B + 8),                 \* B+6
       Ident(<<"a",U,"b">>, B + 6),                 \* B+7
       Ident(<<"c",U,"d">>, B + 6),                 \* B+8
       Node("ExpressionStatement", 1),              \* B+9   o.p_q = r.p_q;
       Assign(B + 9, B + 11, B + 14),               \* B+10
       Member(B + 10, B + 12, B + 13),              \* B+11
       Ident(<<"o">>, B + 11),                      \* B+12
       Ident(<<"p",U,"q">>, B + 11),                \* B+13
       Member(B + 10, B + 15, B + 16),              \* B+14
       Ident(<<"r">>, B + 14),                      \* B+15
       Ident(<<"p",U,"q">>, B + 14),                \* B+16
       Node("ExpressionStatement", 1),              \* B+17  s.t_u = 1;
       Assign(B + 17, B + 19, B + 22),              \* B+18
       Member(B + 18, B + 20, B + 21),              \* B+19
       Ident(<<"s">>, B + 19),                      \* B+20
       Ident(<<"t",U,"u">>, B + 19),                \* B+21
       Node("Literal", B + 18),                     \* B+22
       Node("ExpressionStatement", 1),              \* B+23  w = y.z_a;
       Assign(B + 23, B + 25, B + 26),              \* B+24
       Ident(<<"w">>, B + 24),                      \* B+25
       Member(B + 24, B + 27, B + 28),              \* B+26
       Ident(<<"y">>, B + 26),                      \* B+27
       Ident(<<"z",U,"a">>, B + 26),                \* B+28
       Node("VariableDeclaration", 1),              \* B+29  var { k_l: m_n } = q;
       Node("VariableDeclarator", B + 29),          \* B+30
       Node("ObjectPattern", B + 30),               \* B+31
       Prop(B + 31, B + 33, B + 34),                \* B+32
       Ident(<<"k",U,"l">>, B + 32),                \* B+33  key
       Ident(<<"m",U,"n">>, B + 32),                \* B+34  value
       Ident(<<"q">>, B + 30),                      \* B+35
       Node("VariableDeclaration", 1),              \* B+36  var { i_j } = q;
       Node("VariableDeclarator", B + 36),          \* B+37
       Node("ObjectPattern", B + 37),               \* B+38
       Prop(B + 38, B + 40, B + 40),                \* B+39
       Ident(<<"i",U,"j">>, B + 39),                \* B+40  key and value
       Ident(<<"q">>, B + 37),                      \* B+41
       Node("ExpressionStatement", 1),              \* B+42  ({ b_c: 1 });
       Node("ObjectExpression", B + 42),            \* B+43
       Prop(B + 43, B + 45, B + 46),                \* B+44
       Ident(<<"b",U,"c">>, B + 44),                \* B+45
       Node("Literal", B + 44) >>                   \* B+46

AST == DeclNodes \o RestNodes

Nodes == DOMAIN AST

Identifiers == {n \in Nodes : AST[n].type = "Identifier"}

\* node.parent, node.parent.parent
parent(n) == AST[AST[n].parent]
grandparent(n) == AST[parent(n).parent]

Callee == B + 3
Argument == B + 4
BaseObject == B + 7
ReadProperty == B + 8
LeftProperty == B + 13
RightProperty == B + 16
PatternKey == B + 33
PatternValue == B + 34
Shorthand == B + 40

\*--------------------------------------------------------------------------
\* The source the new-parens rule is run on.  A NewExpression is its index
\* in NEW_EXPRESSIONS; tokens is what sourceCode.getTokens(node) returns.
\*--------------------------------------------------------------------------

Tok(type, value) == [type |-> type, value |-> value]

KwNew == Tok("Keyword", "new")
Foo == Tok("Identifier", "Foo")
Bar == Tok("Identifier", "Bar")
LParen == Tok("Punctuator", "(")
RParen == Tok("Punctuator", ")")

NEW_EXPRESSIONS ==
    << \* new Foo
       <<KwNew, Foo>>,
       \* new Foo()
       <<KwNew, Foo, LParen, RParen>>,
       \* new Foo(1)
       <<KwNew, Foo, LParen, Tok("Numeric", "1"), RParen>>,
       \* new Foo.Bar
       <<KwNew, Foo, Tok("Punctuator", "."), Bar>>,
       \* new Foo(new Bar), and the new Bar inside it
       <<KwNew, Foo, LParen, KwNew, Bar, RParen>>,
       <<KwNew, Bar>>,
       \* new (Foo)
       <<KwNew, LParen, Foo, RParen>>,
       \* new Foo[<a>(</a>], parsed with JSX: the text of the element is one token
       <<KwNew, Foo, Tok("Punctuator", "["), Tok("Punctuator", "<"),
         Tok("JSXIdentifier", "a"), Tok("Punctuator", ">"), Tok("JSXText", "("),
         Tok("Punctuator", "<"), Tok("Punctuator", "/"), Tok("JSXIdentifier", "a"),
         Tok("Punctuator", ">"), Tok("Punctuator", "]")>>,
       \* new Foo[<a>)</a>]
       <<KwNew, Foo, Tok("Punctuator", "["), Tok("Punctuator", "<"),
         Tok("JSXIdentifier", "a"), Tok("Punctuator", ">"), Tok("JSXText", ")"),
         Tok("Punctuator", "<"), Tok("Punctuator", "/"), Tok("JSXIdentifier", "a"),
         Tok("Punctuator", ">"), Tok("Punctuator", "]")>> >>

NewExpressions == DOMAIN NEW_EXPRESSIONS

getTokens(node) == NEW_EXPRESSIONS[node]

\* new Foo(new Bar) and the new Bar inside it
NewFooOfNewBar ==
    CHOOSE n \in NewExpressions : getTokens(n) = <<KwNew, Foo, LParen, KwNew, Bar, RParen>>
NewBarInner == CHOOSE n \in NewExpressions : getTokens(n) = <<KwNew, Bar>>

\* The source text a NewExpression is part of, as its token sequence, and
\* node.range in it; an offset counts the tokens before it.
sourceOf(node) ==
    IF node = NewBarInner THEN getTokens(NewFooOfNewBar) ELSE getTokens(node)

rangeOf(node) ==
    IF node = NewBarInner THEN <<3, 5>> ELSE <<0, Len(getTokens(node))>>

\* new Foo, new Foo() and new Foo[<a>(</a>]
NewFoo == CHOOSE n \in NewExpressions : getTokens(n) = <<KwNew, Foo>>
NewFooCall == CHOOSE n \in NewExpressions : getTokens(n) = <<KwNew, Foo, LParen, RParen>>
NewFooJsxOpen ==
    CHOOSE n \in NewExpressions :
        \E k \in DOMAIN getTokens(n) : getTokens(n)[k] = Tok("JSXText", "(")

\*--------------------------------------------------------------------------
\* The source the padded-blocks rule is run on.  A text is the sequence of
\* its tokens and comments (items) and, for each item, the number of line
\* breaks in the white space that follows it (gaps).  An item keeps its id
\* when the text is edited; height is the number of line breaks inside it.
\* The item at position k has range <<2k - 1, 2k>>, so that the white
\* space after it lies between the offsets 2k and 2k + 1.
\*--------------------------------------------------------------------------

\* the greatest number of line breaks between two items of a source
MaxGap == 3

Item(type, value, height) == [id |-> 0, type |-> type, value |-> value, height |-> height]

\* the items numbered by their position
Numbered(items) == [k \in DOMAIN items |-> [items[k] EXCEPT !.id = k]]

\* a comment placed next to a brace: none, // c, /* c */ or a block comment
\* of two lines
CommentItems(c) ==
    IF c = "Line" THEN <<Item("Line", "c", 0)>>
    ELSE IF c = "Block" THEN <<Item("Block", "c", 0)>>
    ELSE IF c = "Multi" THEN <<Item("Block", "c", 1)>>
    ELSE <<>>

\* the tokens in front of the open brace, and those of the first statement,
\* case or method, for each node type
HeadTokens(type) ==
    IF type = "SwitchStatement"
    THEN <<Item("Keyword", "switch", 0), Item("Punctuator", "(", 0),
           Item("Identifier", "a", 0), Item("Punctuator", ")", 0)>>
    ELSE IF type = "ClassBody"
    THEN <<Item("Keyword", "class", 0), Item("Identifier", "A", 0)>>
    ELSE <<>>

Content(type) ==
    IF type = "SwitchStatement"
    THEN <<Item("Keyword", "case", 0), Item("Numeric", "1", 0), Item("Punctuator", ":", 0)>>
    ELSE IF type = "ClassBody"
    THEN <<Item("Identifier", "m", 0), Item("Punctuator", "(", 0), Item("Punctuator", ")", 0),
           Item("Punctuator", "{", 0), Item("Punctuator", "}", 0)>>
    ELSE <<Item("Identifier", "x", 0)>>

Zeros(n) == [k \in 1..n |-> 0]

\* The program  head { top-comment content bottom-comment } y  and the
\* checked node in it.  top.c is the comment after the open brace, top.a
\* the line breaks between the brace and what follows it, top.b those
\* between the comment and the content; bot.c is the comment before the
\* close brace, bot.a the line breaks between the content and what follows
\* it, bot.b those between the comment and the brace.  body is body.length
\* (cases.length); with body = 0 there is only white space between the
\* braces.  post tells whether a token follows the close brace.
Build(type, body, top, bot, post) ==
    LET head == HeadTokens(type)
        topc == IF body = 0 THEN <<>> ELSE CommentItems(top.c)
        botc == IF body = 0 THEN <<>> ELSE CommentItems(bot.c)
        content == IF body = 0 THEN <<>> ELSE Content(type)
        tail == IF post THEN <<Item("Identifier", "y", 0)>> ELSE <<>>
        open == Len(head) + 1
        first == open + Len(topc) + 1
        close == open + Len(topc) + Len(content) + Len(botc) + 1
        items == head \o <<Item("Punctuator", "{", 0)>> \o topc \o content \o botc
                      \o <<Item("Punctuator", "}", 0)>> \o tail
        gaps == Zeros(Len(head))
                  \o <<top.a>>
                  \o (IF topc = <<>> THEN <<>> ELSE <<top.b>>)
                  \o (IF content = <<>> THEN <<>>
                      ELSE Zeros(Len(content) - 1) \o <<bot.a>>)
                  \o (IF botc = <<>> THEN <<>> ELSE <<bot.b>>)
                  \o (IF post THEN <<1, 0>> ELSE <<0>>)
    IN  [node |-> [type |-> type, body |-> body,
                   first |-> IF type = "SwitchStatement" THEN 1 ELSE open,
                   firstCase |-> IF type = "SwitchStatement" /\ body > 0 THEN first ELSE 0,
                   last |-> close],
         text |-> [items |-> Numbered(items), gaps |-> gaps]]

Lay(c, a, b) == [c |-> c, a |-> a, b |-> b]

\* what may follow an open brace: a line comment ends its line
Tops ==
    {Lay("none", a, 0) : a \in 0..MaxGap}
      \cup {Lay("Line", 0, b) : b \in 1..MaxGap}
      \cup {Lay("Block", a, b) : a \in 0..1, b \in 0..MaxGap}
      \cup {Lay("Multi", 0, b) : b \in 0..MaxGap}

\* what may precede a close brace
Bottoms ==
    {Lay("none", a, 0) : a \in 0..MaxGap}
      \cup {Lay("Line", a, 1) : a \in 0..MaxGap}
      \cup {Lay("Block", a, b) : a \in 0..MaxGap, b \in 0..1}
      \cup {Lay("Multi", a, 0) : a \in 0..MaxGap}

NodeTypes == {"BlockStatement", "SwitchStatement", "ClassBody"}

\* the programs: a block in every layout, and each node type, empty or
\* not, in a few
PROGRAMS ==
    {Build("BlockStatement", 1, t, b, post) :
        t \in Tops, b \in Bottoms, post \in BOOLEAN}
      \cup {Build(type, body, Lay("none", a, 0), Lay("none", a, 0), TRUE) :
              type \in NodeTypes, body \in 0..1, a \in {0, 2}}

\* loc.start.line and loc.end.line of the item at position k
RECURSIVE startLine(_, _)
startLine(text, k) ==
    IF k <= 1 THEN 1
    ELSE startLine(text, k - 1) + text.items[k - 1].height + text.gaps[k - 1]

endLine(text, k) == startLine(text, k) + text.items[k].height

\* range[0] and range[1] of the item at position k
rangeStart(k) == 2 * k - 1
rangeEnd(k) == 2 * k

\* the position of the item with the given id
positionOf(text, id) == CHOOSE k \in DOMAIN text.items : text.items[k].id = id

isComment(item) == item.type = "Line" \/ item.type = "Block"

\* sourceCode.getTokenOrCommentAfter, getTokenOrCommentBefore: the next and
\* the previous item, 0 (null) when there is none
getTokenOrCommentAfter(text, k) == IF k < Len(text.items) THEN k + 1 ELSE 0
getTokenOrCommentBefore(text, k) == k - 1

\* sourceCode.getTokenBefore: the previous item that is not a comment
RECURSIVE getTokenBefore(_, _)
getTokenBefore(text, k) ==
    IF k <= 1 THEN 0
    ELSE IF isComment(text.items[k - 1]) THEN getTokenBefore(text, k - 1)
    ELSE k - 1

\* sourceCode.getFirstToken(node), sourceCode.getLastToken(node)
getFirstToken(text, node) == positionOf(text, node.first)
getLastToken(text, node) == positionOf(text, node.last)

\*--------------------------------------------------------------------------
\* padded-blocks: the two variants of the rule.  Variant 1 reports without
\* fixes, variant 2 attaches a fix to every report.
\*--------------------------------------------------------------------------

Abs(n) == IF n < 0 THEN -n ELSE n

\* context.options[0]: undefined, a string, or an object naming categories
EmptyObject == [k \in {} |-> "always"]

PaddedConfigs ==
    { [type |-> "undefined", string |-> "", object |-> EmptyObject],
      [type |-> "string", string |-> "always", object |-> EmptyObject],
      [type |-> "string", string |-> "never", object |-> EmptyObject],
      [type |-> "object", string |-> "", object |-> [blocks |-> "never"]],
      [type |-> "object", string |-> "", object |-> [switches |-> "always"]],
      [type |-> "object", string |-> "",
       object |-> [switches |-> "never", classes |-> "never"]],
      [type |-> "object", string |-> "",
       object |-> [blocks |-> "always", switches |-> "never", classes |-> "always"]] }

\* the options object create() fills from the configuration
optionsOf(option) ==
    LET config == IF option.type = "undefined" THEN "always" ELSE option.string
    IN  IF option.type # "object"
        THEN [blocks |-> config = "always"]
        ELSE [k \in DOMAIN option.object |-> option.object[k] = "always"]

\* the node types the returned rule object has a handler for
ruleOf_All(options) == NodeTypes

ruleOf(options) ==
    (IF "switches" \in DOMAIN options THEN {"SwitchStatement"} ELSE {})
      \cup (IF "blocks" \in DOMAIN options THEN {"BlockStatement"} ELSE {})
      \cup (IF "classes" \in DOMAIN options THEN {"ClassBody"} ELSE {})

ALWAYS_MESSAGE == "Block must be padded by blank lines."
NEVER_MESSAGE == "Block must not be padded by blank lines."

getOpenBrace(text, node) ==
    IF node.type = "SwitchStatement"
    THEN getTokenBefore(text, positionOf(text, node.firstCase))
    ELSE getFirstToken(text, node)

\* the do-while loop of getTokenPadding: the first item from the token in
\* direction dir that is not a comment on the line tokenLine, 0 (null) when
\* the text ends first
RECURSIVE adjacentTokenOf(_, _, _, _)
adjacentTokenOf(text, token, dir, tokenLine) ==
    LET adjacentToken == IF dir = 1 THEN getTokenOrCommentAfter(text, token)
                         ELSE getTokenOrCommentBefore(text, token)
        adjacentTokenLine == IF dir = 1 THEN startLine(text, adjacentToken)
                             ELSE endLine(text, adjacentToken)
    IN  IF adjacentToken = 0 THEN 0
        ELSE IF adjacentTokenLine = tokenLine /\ isComment(text.items[adjacentToken])
        THEN adjacentTokenOf(text, adjacentToken, dir, tokenLine)
        ELSE adjacentToken

\* getTokenPadding of variant 1
getTokenPadding1(text, token, direction) ==
    LET tokenLine == IF direction = 1 THEN startLine(text, token) ELSE endLine(text, token)
        dir == IF direction # 1 /\ direction # -1 THEN 1 ELSE direction
        adjacentToken == adjacentTokenOf(text, token, dir, tokenLine)
        nonBlankLine == startLine(text, adjacentToken)
    IN  Abs(nonBlankLine - dir - tokenLine)

\* getTokenPadding of variant 2
getTokenPadding2(text, token, direction) ==
    LET tokenLine == IF direction = 1 THEN startLine(text, token) ELSE endLine(text, token)
        dir == IF direction # 1 /\ direction # -1 THEN 1 ELSE direction
        adjacentToken == adjacentTokenOf(text, token, dir, tokenLine)
        adjacentTokenLine == IF dir = 1 THEN startLine(text, adjacentToken)
                             ELSE endLine(text, adjacentToken)
        newLines == dir * (adjacentTokenLine - tokenLine)
    IN  newLines - Min({newLines, 1})

getTokenPadding(variant, text, token, dir) ==
    IF variant = 1 THEN getTokenPadding1(text, token, dir)
    ELSE getTokenPadding2(text, token, dir)

\* the direction of a call that passes none
undefined == 0

\* getAdjacentLineToken as it would be if its loop skipped the comments on
\* the token's line, as the loop of getTokenPadding does
getAdjacentLineToken_Looping(text, token, direction) ==
    LET tokenLine == IF direction = 1 THEN startLine(text, token) ELSE endLine(text, token)
        dir == IF direction # 1 /\ direction # -1 THEN 1 ELSE direction
    IN  adjacentTokenOf(text, token, dir, tokenLine)

\* getAdjacentLineToken: adjacentTokenLine is never assigned, so the loop
\* condition is false after the first round and the item next to the token
\* is returned, comment or not; 0 (null) when there is none
getAdjacentLineToken(text, token, direction) ==
    LET dir == IF direction # 1 /\ direction # -1 THEN 1 ELSE direction
    IN  IF dir = 1 THEN getTokenOrCommentAfter(text, token)
        ELSE getTokenOrCommentBefore(text, token)

\* requirePaddingFor: a missing option is undefined, which is falsy
requirePaddingFor(options, node) ==
    LET key == IF node.type = "BlockStatement" THEN "blocks"
               ELSE IF node.type = "SwitchStatement" THEN "switches"
               ELSE "classes"
    IN  key \in DOMAIN options /\ options[key]

\* the edits a fixer makes
insertTextAfter(range, text) == [range |-> <<range[2], range[2]>>, text |-> text]
insertTextBefore(range, text) == [range |-> <<range[1], range[1]>>, text |-> text]
replaceTextRange(range, text) == [range |-> range, text |-> text]

\* a report without a fix, and a fix function that throws a TypeError
NoFix == [range |-> <<0, 0>>, text |-> <<>>]
TypeError == [range |-> <<0, 0>>, text |-> <<"TypeError">>]

rangeOfItem(k) == <<rangeStart(k), rangeEnd(k)>>

removePadding(text, token, dir) ==
    LET adjacentToken == getAdjacentLineToken(text, token, dir)
        linebreak == <<"\n">>
    IN  IF dir = 1
        THEN replaceTextRange(<<rangeEnd(token), rangeStart(adjacentToken)>>, linebreak)
        ELSE replaceTextRange(<<rangeEnd(adjacentToken), rangeStart(token)>>, linebreak)

\* addPadding: the fixer reads adjacentToken.range, which throws on null
addPadding(text, node, dir) ==
    LET adjacentToken == getAdjacentLineToken(text, node, undefined)
        padding == <<"\n">>
    IN  IF adjacentToken = 0 THEN TypeError
        ELSE IF dir = 1 THEN insertTextBefore(rangeOfItem(adjacentToken), padding)
        ELSE insertTextAfter(rangeOfItem(adjacentToken), padding)

\* foundMsg: the number a message ends with, 0 for a message without the
\* suffix " (N blank lines found)"
foundMsg(blockTopPadding) == IF blockTopPadding > 1 THEN blockTopPadding ELSE 0

\* a call of context.report; side tells which of the four calls made it
Report(node, side, line, message, found, fix) ==
    [node |-> node, side |-> side, loc |-> [line |-> line],
     message |-> [text |-> message, found |-> found], fix |-> fix]

\* checkPadding: the two paddings and the reports, in order
checkPadding(variant, options, text, node) ==
    LET openBrace == getOpenBrace(text, node)
        closeBrace == getLastToken(text, node)
        blockTopPadding == getTokenPadding(variant, text, openBrace, 1)
        blockBottomPadding == getTokenPadding(variant, text, closeBrace, -1)
        found == foundMsg(blockTopPadding)
        fix(edit) == IF variant = 1 THEN NoFix ELSE edit
        neverBottomLine == IF variant = 1 THEN endLine(text, closeBrace) - 1
                           ELSE endLine(text, closeBrace) - blockBottomPadding
    IN  [top |-> blockTopPadding,
         bottom |-> blockBottomPadding,
         reports |->
            IF requirePaddingFor(options, node)
            THEN (IF blockTopPadding = 0
                  THEN <<Report(node, "top", startLine(text, openBrace), ALWAYS_MESSAGE, 0,
                                fix(addPadding(text, openBrace, 1)))>>
                  ELSE <<>>)
                 \o (IF blockBottomPadding = 0
                     THEN <<Report(node, "bottom", endLine(text, closeBrace), ALWAYS_MESSAGE, 0,
                                   fix(addPadding(text, closeBrace, -1)))>>
                     ELSE <<>>)
            ELSE (IF blockTopPadding # 0
                  THEN <<Report(node, "top", startLine(text, openBrace) + 1, NEVER_MESSAGE, found,
                                fix(removePadding(text, openBrace, 1)))>>
                  ELSE <<>>)
                 \o (IF blockBottomPadding # 0
                     THEN <<Report(node, "bottom", neverBottomLine, NEVER_MESSAGE, found,
                                   fix(removePadding(text, closeBrace, -1)))>>
                     ELSE <<>>)]

\* what a node that is not checked leaves behind
NotChecked == [top |-> 0, bottom |-> 0, reports |-> <<>>]

\* the traversal calls the handler the rule has for the node's type, if
\* any; each handler returns at once on an empty node
handler(variant, options, rule, text, node) ==
    IF node.type \notin rule THEN NotChecked
    ELSE IF node.body = 0 THEN NotChecked
    ELSE checkPadding(variant, options, text, node)

\* the text with one edit applied: an insertion adds its line breaks to the
\* white space it falls in; a replacement from the end of one item to the
\* start of a later one drops everything between them
applyTextEdit(text, edit) ==
    LET a == edit.range[1]
        b == edit.range[2]
        i == a \div 2
        j == (b + 1) \div 2
    IN  IF a = b
        THEN [text EXCEPT !.gaps[i] = @ + Len(edit.text)]
        ELSE [items |-> SubSeq(text.items, 1, i) \o SubSeq(text.items, j, Len(text.items)),
              gaps |-> SubSeq(text.gaps, 1, i - 1) \o <<Len(edit.text)>>
                         \o SubSeq(text.gaps, j, Len(text.gaps))]

\* the text with a set of edits applied, the last one in the text first
RECURSIVE applyFixes(_, _)
applyFixes(text, edits) ==
    IF edits = {} THEN text
    ELSE LET e == CHOOSE x \in edits : \A y \in edits : y.range[1] <= x.range[1]
         IN  applyFixes(applyTextEdit(text, e), edits \ {e})

\*--------------------------------------------------------------------------
\* State
\*--------------------------------------------------------------------------

VARIABLES
    properties,   \* camelcase: the option after its default is applied
    reported,     \* camelcase: the nodes report() has passed on, in order
    lastIndex,    \* camelcase: NON_SURROUNDING_UNDERSCORE.lastIndex
    reports,      \* camelcase: the calls of context.report, in order
    last,         \* camelcase: the latest Identifier call and the path it took
    nvisits,      \* camelcase: number of Identifier calls so far
    npReports,    \* new-parens: the calls of context.report, in order
    npLast,       \* new-parens: the node of the latest NewExpression call
    npVisits,     \* new-parens: number of NewExpression calls so far
    npFixed,      \* new-parens: the source after one reported fix is applied
    npRerun,      \* new-parens: the run of a fresh instance on the fixed source
    customTypes,  \* valid-typeof: the allow list of the configuration
    vtReports,    \* valid-typeof: the calls of context.report, in order
    vtLast,       \* valid-typeof: the node of the latest UnaryExpression call
    vtVisits,     \* valid-typeof: number of UnaryExpression calls so far
    pbInstance,   \* padded-blocks: the variant, its configuration, options and rule
    pbProgram,    \* padded-blocks: the checked node and the source it is in
    pbRun,        \* padded-blocks: the visit of the node and what it reported
    pbFix,        \* padded-blocks: the source after reported fixes are applied
    pbRerun,      \* padded-blocks: the run of a fresh instance on the fixed source
    conv,         \* snakeToCamelCase: a name, its classification and its conversion
    two           \* camelcase: the state of two instances run on the same tree

ccVars == <<properties, reported, lastIndex, reports, last, nvisits>>
npVars == <<npReports, npLast, npVisits, npFixed, npRerun>>
vtVars == <<customTypes, vtReports, vtLast, vtVisits>>
pbVars == <<pbInstance, pbProgram, pbRun, pbFix, pbRerun>>
cvVars == <<conv>>
twVars == <<two>>
vars == <<properties, reported, lastIndex, reports, last, nvisits,
          npReports, npLast, npVisits, npFixed, npRerun,
          customTypes, vtReports, vtLast, vtVisits,
          pbInstance, pbProgram, pbRun, pbFix, pbRerun, conv, two>>

\* the variables the handlers of one rule leave alone
exceptCamelcase == <<npVars, vtVars, pbVars, cvVars, twVars>>
exceptNewParens == <<ccVars, vtVars, pbVars, cvVars, twVars>>
exceptValidTypeof == <<ccVars, npVars, pbVars, cvVars, twVars>>
exceptPaddedBlocks == <<ccVars, npVars, vtVars, cvVars, twVars>>

\* context.options[0].properties as the configuration may give it: absent
\* (or any value that is neither "always" nor "never"), "always", "never"
OptionValues == {"", "always", "never"}

\* properties = options.properties || "", then the default
propertiesOf(option) ==
    IF option # "always" /\ option # "never" THEN "always" ELSE option

\* create(): the instance of a variant under a configuration
createPaddedBlocks(variant, option) ==
    [variant |-> variant, config |-> option, options |-> optionsOf(option),
     rule |-> ruleOf(optionsOf(option))]

\* the padded-blocks rule before it runs on a program
PaddedBlocksStart(variant, option, program) ==
    /\ pbInstance = createPaddedBlocks(variant, option)
    /\ pbProgram = program
    /\ pbRun = [stage |-> "created"] @@ NotChecked
    /\ pbFix = [applied |-> {}, text |-> program.text]
    /\ pbRerun = NotChecked

\* the runs of the other rules leave padded-blocks where it starts
PaddedBlocksIdle ==
    PaddedBlocksStart(2, [type |-> "undefined", string |-> "", object |-> EmptyObject],
                      Build("BlockStatement", 0, Lay("none", 0, 0), Lay("none", 0, 0), FALSE))

\* the greatest length of a name handed to snakeToCamelCase
MaxNameLen == 5

\* the names: every string of underscores, lower-case and upper-case
\* letters up to that length, and the names of the tree
NAMES ==
    UNION {[1..n -> {U, "x", "X"}] : n \in 1..MaxNameLen}
      \cup {DeclNames[k] : k \in DOMAIN DeclNames}

\* snakeToCamelCase before it is called on a name
ConvertStart(name) ==
    conv = [name |-> name, done |-> FALSE, snake |-> FALSE, out |-> <<>>]

ConvertIdle == ConvertStart(foo_bar)

\* the two instances, and the greatest number of Identifier calls they get
Instances == 1..2
MaxTwoVisits == 4

\* the identifiers both traversals visit: the declarations of foo_bar,
\* FOO_BAR and x_y, and the callee of a call
declarationOf(name) ==
    CHOOSE n \in Identifiers : n <= B /\ AST[n].name = name

TwoNodes ==
    {declarationOf(foo_bar), declarationOf(FOO_BAR), declarationOf(<<"x", U, "y">>), Callee}

\* the reported array and the NON_SURROUNDING_UNDERSCORE object the handler
\* of the k-th instance closes over: each call of create() makes its own
reportedOf_Shared(k) == CHOOSE i \in Instances : \A j \in Instances : i <= j

reportedOf(k) == k

regexOf(k) == k

\* two instances before their first visit
TwoInstancesStart(options) ==
    two = [properties |-> [k \in Instances |-> propertiesOf(options[k])],
           reported |-> [k \in Instances |-> <<>>],
           lastIndex |-> [k \in Instances |-> 0],
           reports |-> [k \in Instances |-> <<>>],
           visits |-> [k \in Instances |-> <<>>],
           order |-> <<>>]

TwoInstancesIdle == TwoInstancesStart([k \in Instances |-> ""])

Init ==
    /\ \E option \in OptionValues : properties = propertiesOf(option)
    /\ reported = <<>>
    /\ lastIndex = 0
    /\ reports = <<>>
    /\ last = [node |-> 0, snake |-> FALSE, outcome |-> "none"]
    /\ nvisits = 0
    /\ npReports = <<>>
    /\ npLast = 0
    /\ npVisits = 0
    /\ npFixed = [node |-> 0, source |-> <<>>, range |-> <<0, 0>>]
    /\ npRerun = [done |-> FALSE, reports |-> <<>>]
    /\ customTypes = <<>>
    /\ vtReports = <<>>
    /\ vtLast = 0
    /\ vtVisits = 0
    /\ PaddedBlocksIdle
    /\ ConvertIdle
    /\ TwoInstancesIdle

\*--------------------------------------------------------------------------
\* camelcase
\*--------------------------------------------------------------------------

\* lastIndex never exceeds the length of the longest name
MaxLastIndex == Len(foo_bar_baz)

\* isSnakeCase(node.name) for every identifier and every lastIndex, and
\* snakeToCamelCase(node.name) for every identifier, tabulated
isSnakeCaseOf ==
    [n \in Identifiers |->
        [li \in 0..MaxLastIndex |-> isSnakeCase(AST[n].name, li)]]

snakeToCamelCaseOf == [n \in Identifiers |-> snakeToCamelCase(AST[n].name)]

\* reported.indexOf(node) !== -1
isReported(list, node) == \E k \in DOMAIN list : list[k] = node

\* the object handed to report() and on to context.report()
reportOf(node) ==
    [node |-> node,
     message |-> "Identifier '{{name}}' is not in camel case.",
     name |-> AST[node].name,
     fix |-> snakeToCamelCaseOf[node]]

\* report(obj) without its early return
report_NoDedup(node) ==
    /\ reported' = Append(reported, node)
    /\ reports' = Append(reports, reportOf(node))

report(node) ==
    IF isReported(reported, node)
    THEN UNCHANGED <<reported, reports>>
    ELSE /\ reported' = Append(reported, node)
         /\ reports' = Append(reports, reportOf(node))

\* the member-expression branch: TRUE when the identifier is a reference
memberIsReference(node) ==
    LET effectiveParent == grandparent(node)
        object == AST[parent(node).object]
    IN  IF object.type = "Identifier" /\ object.name = AST[node].name
        THEN FALSE
        ELSE IF /\ effectiveParent.type = "AssignmentExpression"
                /\ \/ AST[effectiveParent.right].type # "MemberExpression"
                   \/ /\ AST[effectiveParent.left].type = "MemberExpression"
                      /\ AST[AST[effectiveParent.left].property].name = AST[node].name
        THEN FALSE
        ELSE TRUE

\* the Property branch: TRUE when it sets isReference
propertyIsReference(node) ==
    /\ parent(node).parent # 0
    /\ grandparent(node).type = "ObjectPattern"
    /\ parent(node).key = node
    /\ parent(node).value # node

\* isReference without the CallExpression test
isReference_NoCall(node, props) ==
    IF props # "never" /\ parent(node).type = "MemberExpression"
    THEN memberIsReference(node)
    ELSE IF props # "never" /\ parent(node).type = "Property"
    THEN propertyIsReference(node)
    ELSE FALSE

\* isReference without the test of the properties option
isReference_NoNever(node, props) ==
    IF parent(node).type = "MemberExpression"
    THEN memberIsReference(node)
    ELSE IF parent(node).type = "Property"
    THEN propertyIsReference(node) \/ parent(node).type = "CallExpression"
    ELSE parent(node).type = "CallExpression"

\* isReference without the Property branch
isReference_NoProperty(node, props) ==
    IF props # "never" /\ parent(node).type = "MemberExpression"
    THEN memberIsReference(node)
    ELSE parent(node).type = "CallExpression"

\* the value of isReference when the handler reaches its test
isReference(node, props) ==
    IF props # "never" /\ parent(node).type = "MemberExpression"
    THEN memberIsReference(node)
    ELSE IF props # "never" /\ parent(node).type = "Property"
    THEN propertyIsReference(node) \/ parent(node).type = "CallExpression"
    ELSE parent(node).type = "CallExpression"

\* the Identifier handler
Identifier(node) ==
    /\ nvisits < MaxVisits
    /\ nvisits' = nvisits + 1
    /\ LET snake == isSnakeCaseOf[node][lastIndex]
       IN  /\ lastIndex' = snake.lastIndex
           /\ IF ~snake.result
              THEN /\ UNCHANGED <<reported, reports>>
                   /\ last' = [node |-> node, snake |-> FALSE, outcome |-> "notSnake"]
              ELSE IF isReference(node, properties)
              THEN /\ UNCHANGED <<reported, reports>>
                   /\ last' = [node |-> node, snake |-> TRUE, outcome |-> "reference"]
              ELSE /\ report(node)
                   /\ last' = [node |-> node, snake |-> TRUE,
                               outcome |-> IF isReported(reported, node)
                                           THEN "duplicate" ELSE "reported"]
    /\ UNCHANGED <<properties, exceptCamelcase>>

Next == \E node \in Identifiers : Identifier(node)

Spec == Init /\ [][Next]_vars

\*--------------------------------------------------------------------------
\* new-parens
\*--------------------------------------------------------------------------

\* isValue(value)(token)
isValue(value, token) == token.value = value

\* tokens.some(isValue(value))
some(tokens, value) == \E k \in DOMAIN tokens : isValue(value, tokens[k])

\* parens with || in place of &&
parens_Either(tokens) == some(tokens, "(") \/ some(tokens, ")")

parens(tokens) == some(tokens, "(") /\ some(tokens, ")")

\* npReportOf with a fix text that lacks the closing parenthesis
npReportOf_OpenOnly(node) ==
    [node |-> node,
     message |-> "Missing '()' invoking a constructor",
     fix |-> [insertTextAfter |-> node, text |-> <<"(">>]]

npReportOf(node) ==
    [node |-> node,
     message |-> "Missing '()' invoking a constructor",
     fix |-> [insertTextAfter |-> node, text |-> <<"(", ")">>]]

\* the NewExpression handler
NewExpression(node) ==
    /\ npVisits < MaxVisits
    /\ npVisits' = npVisits + 1
    /\ npLast' = node
    /\ IF ~parens(getTokens(node))
       THEN npReports' = Append(npReports, npReportOf(node))
       ELSE UNCHANGED npReports
    /\ UNCHANGED <<exceptNewParens, npFixed, npRerun>>

\* the tokens of a text made of punctuators
tokensOf(text) == [k \in DOMAIN text |-> Tok("Punctuator", text[k])]

\* the source with the edit applied
applyEdit(source, edit) ==
    SubSeq(source, 1, edit.range[1]) \o tokensOf(edit.text)
        \o SubSeq(source, edit.range[2] + 1, Len(source))

\* node.range once the edited source is parsed again: text put at the end
\* of a NewExpression becomes part of it, text put before it moves it
rangeAfterEdit(range, edit) ==
    IF edit.range[1] >= range[2]
    THEN <<range[1], range[2] + Len(edit.text)>>
    ELSE <<range[1] + Len(edit.text), range[2] + Len(edit.text)>>

\* the engine applies the fix of the i-th report
ApplyNewParensFix(i) ==
    /\ npFixed.node = 0
    /\ i \in DOMAIN npReports
    /\ LET node == npReports[i].fix.insertTextAfter
           edit == insertTextAfter(rangeOf(node), npReports[i].fix.text)
       IN  npFixed' = [node |-> npReports[i].node,
                       source |-> applyEdit(sourceOf(node), edit),
                       range |-> rangeAfterEdit(rangeOf(npReports[i].node), edit)]
    /\ UNCHANGED <<exceptNewParens, npReports, npLast, npVisits, npRerun>>

\* a fresh instance visits the fixed NewExpression
RerunNewExpression ==
    /\ npFixed.node # 0
    /\ ~npRerun.done
    /\ LET tokens == SubSeq(npFixed.source, npFixed.range[1] + 1, npFixed.range[2])
       IN  npRerun' = [done |-> TRUE,
                       reports |-> IF ~parens(tokens)
                                   THEN <<npReportOf(npFixed.node)>>
                                   ELSE <<>>]
    /\ UNCHANGED <<exceptNewParens, npReports, npLast, npVisits, npFixed>>

NextNewParens ==
    \/ \E node \in NewExpressions : NewExpression(node)
    \/ \E i \in 1..MaxVisits : ApplyNewParensFix(i)
    \/ RerunNewExpression

SpecNewParens == Init /\ [][NextNewParens]_vars

\*--------------------------------------------------------------------------
\* valid-typeof
\*--------------------------------------------------------------------------

\* The UnaryExpression nodes of the source the rule is run on.  A node is
\* its index in UNARY_EXPRESSIONS; parent is what context.getAncestors()
\* ends with, and the operand of parent that is the node itself has
\* self = TRUE.
Self == [type |-> "UnaryExpression", value |-> "", self |-> TRUE]
Lit(value) == [type |-> "Literal", value |-> value, self |-> FALSE]
Other(type) == [type |-> type, value |-> "", self |-> FALSE]

Unary(operator, parentType, parentOperator, left, right) ==
    [operator |-> operator,
     parent |-> [type |-> parentType, operator |-> parentOperator,
                 left |-> left, right |-> right]]

UNARY_EXPRESSIONS ==
    << Unary("typeof", "BinaryExpression", "==", Self, Lit("strnig")),
       Unary("typeof", "BinaryExpression", "===", Self, Lit("strnig")),
       Unary("typeof", "BinaryExpression", "!=", Self, Lit("strnig")),
       Unary("typeof", "BinaryExpression", "!==", Self, Lit("strnig")),
       Unary("typeof", "BinaryExpression", "===", Lit("strnig"), Self),
       Unary("typeof", "BinaryExpression", "===", Self, Lit("string")),
       Unary("typeof", "BinaryExpression", "===", Lit("symbol"), Self),
       Unary("typeof", "BinaryExpression", "===", Self, Lit("bigint")),
       Unary("typeof", "BinaryExpression", "!=", Lit("bigint"), Self),
       Unary("typeof", "BinaryExpression", "===", Self, Other("Identifier")),
       Unary("typeof", "BinaryExpression", "===", Self, Other("UnaryExpression")),
       Unary("typeof", "BinaryExpression", "<", Self, Lit("strnig")),
       Unary("typeof", "BinaryExpression", "+", Lit("bigint"), Self),
       Unary("typeof", "LogicalExpression", "&&", Self, Lit("strnig")),
       Unary("typeof", "ExpressionStatement", "", Other("none"), Other("none")),
       Unary("!", "BinaryExpression", "===", Self, Lit("strnig")),
       Unary("-", "BinaryExpression", "==", Lit("bigint"), Self) >>

UnaryExpressions == DOMAIN UNARY_EXPRESSIONS

\* context.options[0] as the configuration may give it: absent, or an
\* object with an allow array of at least one string
TypeofOptions ==
    { [given |-> FALSE, allow |-> <<>>],
      [given |-> TRUE, allow |-> <<"bigint">>],
      [given |-> TRUE, allow |-> <<"strnig", "bigint">>] }

customTypesOf(option) == IF option.given THEN option.allow ELSE <<>>

VALID_TYPES ==
    <<"symbol", "undefined", "object", "boolean", "number", "string", "function">>

\* OPERATORS without the loose comparisons
OPERATORS_StrictOnly == <<"===", "!==">>

OPERATORS == <<"==", "===", "!=", "!==">>

\* array.indexOf(value) === -1
notIn(array, value) == \A k \in DOMAIN array : array[k] # value

InitValidTypeof ==
    /\ properties = "always"
    /\ reported = <<>>
    /\ lastIndex = 0
    /\ reports = <<>>
    /\ last = [node |-> 0, snake |-> FALSE, outcome |-> "none"]
    /\ nvisits = 0
    /\ npReports = <<>>
    /\ npLast = 0
    /\ npVisits = 0
    /\ npFixed = [node |-> 0, source |-> <<>>, range |-> <<0, 0>>]
    /\ npRerun = [done |-> FALSE, reports |-> <<>>]
    /\ \E option \in TypeofOptions : customTypes = customTypesOf(option)
    /\ vtReports = <<>>
    /\ vtLast = 0
    /\ vtVisits = 0
    /\ PaddedBlocksIdle
    /\ ConvertIdle
    /\ TwoInstancesIdle

\* the UnaryExpression handler
UnaryExpression(n) ==
    /\ vtVisits < MaxVisits
    /\ vtVisits' = vtVisits + 1
    /\ vtLast' = n
    /\ LET node == UNARY_EXPRESSIONS[n]
           sibling == IF node.parent.left.self THEN node.parent.right
                      ELSE node.parent.left
       IN  IF /\ node.operator = "typeof"
              /\ node.parent.type = "BinaryExpression"
              /\ ~notIn(OPERATORS, node.parent.operator)
              /\ sibling.type = "Literal"
              /\ notIn(VALID_TYPES, sibling.value)
              /\ notIn(customTypes, sibling.value)
           THEN vtReports' = Append(vtReports,
                    [node |-> sibling, of |-> n,
                     message |-> "Invalid typeof comparison value"])
           ELSE UNCHANGED vtReports
    /\ UNCHANGED <<exceptValidTypeof, customTypes>>

NextValidTypeof == \E n \in UnaryExpressions : UnaryExpression(n)

SpecValidTypeof == InitValidTypeof /\ [][NextValidTypeof]_vars

\*--------------------------------------------------------------------------
\* padded-blocks: one instance of either variant visits the node of a
\* program; fixes it reported are applied; a fresh instance under the same
\* configuration visits the node in the fixed source
\*--------------------------------------------------------------------------

InitPaddedBlocks ==
    /\ properties = "always"
    /\ reported = <<>>
    /\ lastIndex = 0
    /\ reports = <<>>
    /\ last = [node |-> 0, snake |-> FALSE, outcome |-> "none"]
    /\ nvisits = 0
    /\ npReports = <<>>
    /\ npLast = 0
    /\ npVisits = 0
    /\ npFixed = [node |-> 0, source |-> <<>>, range |-> <<0, 0>>]
    /\ npRerun = [done |-> FALSE, reports |-> <<>>]
    /\ customTypes = <<>>
    /\ vtReports = <<>>
    /\ vtLast = 0
    /\ vtVisits = 0
    /\ \E variant \in 1..2, option \in PaddedConfigs, program \in PROGRAMS :
          PaddedBlocksStart(variant, option, program)
    /\ ConvertIdle
    /\ TwoInstancesIdle

\* the traversal reaches the node
VisitPaddedNode ==
    /\ pbRun.stage = "created"
    /\ pbRun' = [stage |-> "visited"]
                  @@ handler(pbInstance.variant, pbInstance.options, pbInstance.rule,
                             pbProgram.text, pbProgram.node)
    /\ UNCHANGED <<exceptPaddedBlocks, pbInstance, pbProgram, pbFix, pbRerun>>

\* the engine applies the fixes of some of the reports; a fix function that
\* throws ends the run
ApplyPaddedFixes ==
    /\ pbRun.stage = "visited"
    /\ \E S \in SUBSET {"top", "bottom"} :
          LET fixed == {i \in DOMAIN pbRun.reports : pbRun.reports[i].side \in S}
              edits == {pbRun.reports[i].fix : i \in fixed}
          IN  /\ S # {}
              /\ S = {pbRun.reports[i].side : i \in fixed}
              /\ NoFix \notin edits
              /\ IF TypeError \in edits
                 THEN /\ pbRun' = [pbRun EXCEPT !.stage = "failed"]
                      /\ pbFix' = [applied |-> S, text |-> pbProgram.text]
                 ELSE /\ pbRun' = [pbRun EXCEPT !.stage = "fixed"]
                      /\ pbFix' = [applied |-> S, text |-> applyFixes(pbProgram.text, edits)]
    /\ UNCHANGED <<exceptPaddedBlocks, pbInstance, pbProgram, pbRerun>>

\* a fresh instance checks the node in the fixed source
RerunPaddedNode ==
    /\ pbRun.stage = "fixed"
    /\ pbRun' = [pbRun EXCEPT !.stage = "rechecked"]
    /\ LET fresh == createPaddedBlocks(pbInstance.variant, pbInstance.config)
       IN  pbRerun' = handler(fresh.variant, fresh.options, fresh.rule,
                              pbFix.text, pbProgram.node)
    /\ UNCHANGED <<exceptPaddedBlocks, pbInstance, pbProgram, pbFix>>

NextPaddedBlocks ==
    \/ VisitPaddedNode
    \/ ApplyPaddedFixes
    \/ RerunPaddedNode

SpecPaddedBlocks == InitPaddedBlocks /\ [][NextPaddedBlocks]_vars

\*--------------------------------------------------------------------------
\* snakeToCamelCase as a function of the name: a fresh instance classifies
\* and converts one name
\*--------------------------------------------------------------------------

InitConvert ==
    /\ properties = "always"
    /\ reported = <<>>
    /\ lastIndex = 0
    /\ reports = <<>>
    /\ last = [node |-> 0, snake |-> FALSE, outcome |-> "none"]
    /\ nvisits = 0
    /\ npReports = <<>>
    /\ npLast = 0
    /\ npVisits = 0
    /\ npFixed = [node |-> 0, source |-> <<>>, range |-> <<0, 0>>]
    /\ npRerun = [done |-> FALSE, reports |-> <<>>]
    /\ customTypes = <<>>
    /\ vtReports = <<>>
    /\ vtLast = 0
    /\ vtVisits = 0
    /\ PaddedBlocksIdle
    /\ \E name \in NAMES : ConvertStart(name)
    /\ TwoInstancesIdle

\* isSnakeCase(name) on the instance's first call, and snakeToCamelCase(name)
Convert ==
    /\ ~conv.done
    /\ conv' = [name |-> conv.name, done |-> TRUE,
                snake |-> isSnakeCase(conv.name, lastIndex).result,
                out |-> snakeToCamelCase(conv.name)]
    /\ UNCHANGED <<ccVars, npVars, vtVars, pbVars, twVars>>

NextConvert == Convert

SpecConvert == InitConvert /\ [][NextConvert]_vars

\*--------------------------------------------------------------------------
\* camelcase: two instances made by two calls of create() visit the
\* identifiers of one tree, their visits interleaved in any order
\*--------------------------------------------------------------------------

InitTwoInstances ==
    /\ properties = "always"
    /\ reported = <<>>
    /\ lastIndex = 0
    /\ reports = <<>>
    /\ last = [node |-> 0, snake |-> FALSE, outcome |-> "none"]
    /\ nvisits = 0
    /\ npReports = <<>>
    /\ npLast = 0
    /\ npVisits = 0
    /\ npFixed = [node |-> 0, source |-> <<>>, range |-> <<0, 0>>]
    /\ npRerun = [done |-> FALSE, reports |-> <<>>]
    /\ customTypes = <<>>
    /\ vtReports = <<>>
    /\ vtLast = 0
    /\ vtVisits = 0
    /\ PaddedBlocksIdle
    /\ ConvertIdle
    /\ \E options \in [Instances -> OptionValues] : TwoInstancesStart(options)

\* the Identifier handler as a function of the state it closes over
IdentifierOn(st, node) ==
    LET snake == isSnakeCaseOf[node][st.lastIndex]
    IN  IF ~snake.result \/ isReference(node, st.properties)
             \/ isReported(st.reported, node)
        THEN [st EXCEPT !.lastIndex = snake.lastIndex]
        ELSE [st EXCEPT !.lastIndex = snake.lastIndex,
                        !.reported = Append(@, node),
                        !.reports = Append(@, reportOf(node))]

\* the traversal of instance k calls its Identifier handler
TwoIdentifier(k, node) ==
    /\ Len(two.order) < MaxTwoVisits
    /\ LET st == [properties |-> two.properties[k],
                  reported |-> two.reported[reportedOf(k)],
                  lastIndex |-> two.lastIndex[regexOf(k)],
                  reports |-> two.reports[k]]
           nx == IdentifierOn(st, node)
       IN  two' = [two EXCEPT !.reported[reportedOf(k)] = nx.reported,
                              !.lastIndex[regexOf(k)] = nx.lastIndex,
                              !.reports[k] = nx.reports,
                              !.visits[k] = Append(@, node),
                              !.order = Append(@, k)]
    /\ UNCHANGED <<ccVars, npVars, vtVars, pbVars, cvVars>>

NextTwoInstances == \E k \in Instances, node \in TwoNodes : TwoIdentifier(k, node)

SpecTwoInstances == InitTwoInstances /\ [][NextTwoInstances]_vars

\*--------------------------------------------------------------------------
\* Properties of camelcase (checked under Spec)
\*--------------------------------------------------------------------------

Range(f) == {f[k] : k \in DOMAIN f}

\* the name of the identifier the latest Identifier call was for
lastName == AST[last.node].name

\* the declaration of DeclNames[k]
DeclOf(k) == 2 + NDecl + k

\* C1: the first isSnakeCase call of a fresh instance returns false for
\* _x, _x_, x_, __x, x__, __x__ and true for x_y, _x_y, _x_y_, __x__y__,
\* x_y_, x_y__, x__y__.
FirstCallTruthTable ==
    nvisits = 1 =>
        /\ lastName \in Range(FalseNames) => ~last.snake
        /\ lastName \in Range(TrueNames) => last.snake

FirstCallWitness ==
    /\ nvisits = 1
    /\ lastName = <<"x",U,U,"y",U,U>>
    /\ last.snake
    /\ last.outcome = "reported"

\* C2: whatever was visited before, isSnakeCase returns true for a name of
\* the true list.
SnakeCaseIgnoresHistory ==
    (last.node # 0 /\ lastName \in Range(TrueNames)) => last.snake

\* C3: context.report is called at most once per node.
NoNodeReportedTwice ==
    \A i, j \in DOMAIN reports :
        reports[i].node = reports[j].node => i = j

DuplicateSuppressedWitness ==
    /\ last.node = Shorthand
    /\ last.outcome = "duplicate"
    /\ Len(reports) = 1

\* C4: the fix text of foo_bar is fooBar, that of _foo_bar_baz_ is
\* _fooBarBaz_ and that of __x__y__ is __xY__.
FixTextExamples ==
    \A i \in DOMAIN reports :
        /\ reports[i].name = foo_bar
              => reports[i].fix = <<"f","o","o","B","a","r">>
        /\ reports[i].name = foo_bar_baz
              => reports[i].fix = <<U,"f","o","o","B","a","r","B","a","z",U>>
        /\ reports[i].name = <<U,U,"x",U,U,"y",U,U>>
              => reports[i].fix = <<U,U,"x","Y",U,U>>

\* C5: the fix text of a reported identifier is not snake-cased for a
\* fresh run of the casing check.
FixedNameNotSnakeCase ==
    \A i \in DOMAIN reports : ~isSnakeCase(reports[i].fix, 0).result

\* C6: an Identifier whose parent is a CallExpression is never reported,
\* whatever the properties option and its name.
CallChildNeverReported ==
    \A i \in DOMAIN reports : parent(reports[i].node).type # "CallExpression"

CallChildWitness ==
    /\ last.node = Callee
    /\ last.snake
    /\ last.outcome = "reference"
    /\ AST[DeclOf(7)].name = AST[Callee].name
    /\ isReported(reported, DeclOf(7))

\* C7: with properties = "always", an Identifier inside a MemberExpression
\* is reported only if it is the base object or the member expression is
\* the left-hand side of an assignment.
MemberOnlyBaseOrAssignmentTarget ==
    properties = "always" =>
        \A i \in DOMAIN reports :
            LET n == reports[i].node
            IN  parent(n).type = "MemberExpression" =>
                    \/ parent(n).object = n
                    \/ /\ grandparent(n).type = "AssignmentExpression"
                       /\ grandparent(n).left = AST[n].parent

\* C8: with properties = "never", an Identifier call whose name passes the
\* snake-case check, whose parent is not a CallExpression and whose node
\* was not reported before adds exactly one report, for that node.
NeverReportsEveryPosition ==
    [][\A n \in Identifiers :
          ( /\ properties = "never"
            /\ nvisits' = nvisits + 1
            /\ last'.node = n
            /\ last'.snake
            /\ parent(n).type # "CallExpression"
            /\ ~isReported(reported, n) )
          => /\ Len(reports') = Len(reports) + 1
             /\ SubSeq(reports', 1, Len(reports)) = reports
             /\ reports'[Len(reports')].node = n]_vars

NeverWitness ==
    /\ properties = "never"
    /\ last.node = ReadProperty
    /\ last.outcome = "reported"
    /\ isReported(reported, PatternKey)

\* n is the key or the value of a Property directly inside an ObjectPattern
\* whose key and value are different nodes
InRenamingPattern(n) ==
    /\ parent(n).type = "Property"
    /\ parent(n).parent # 0
    /\ grandparent(n).type = "ObjectPattern"
    /\ parent(n).key # parent(n).value
    /\ n \in {parent(n).key, parent(n).value}

\* C9 as stated: with properties = "always", neither the key nor the value
\* of such a Property is reported.
PatternKeyAndValueNeverReported ==
    properties = "always" =>
        \A i \in DOMAIN reports : ~InRenamingPattern(reports[i].node)

\* C9: with properties = "always", the key of a Property directly inside
\* an ObjectPattern whose key and value are different nodes is not
\* reported.
PatternKeyNeverReported ==
    properties = "always" =>
        \A i \in DOMAIN reports :
            LET n == reports[i].node
            IN  ~(InRenamingPattern(n) /\ parent(n).key = n)

PatternKeyWitness ==
    /\ properties = "always"
    /\ last.node = PatternKey
    /\ last.snake
    /\ last.outcome = "reference"
    /\ isReported(reported, PatternValue)

\*--------------------------------------------------------------------------
\* Properties of new-parens (checked under SpecNewParens)
\*--------------------------------------------------------------------------

HasToken(n, value) == \E k \in DOMAIN NEW_EXPRESSIONS[n] : NEW_EXPRESSIONS[n][k].value = value

\* the NewExpression call for n adds exactly one report, for n
AddsOneReport(n) ==
    /\ Len(npReports') = Len(npReports) + 1
    /\ SubSeq(npReports', 1, Len(npReports)) = npReports
    /\ npReports'[Len(npReports')].node = n

\* C10 as stated: a NewExpression call reports, once, exactly when the
\* token span contains neither "(" nor ")".
ReportsExactlyWhenNeitherParen ==
    [][\A n \in NewExpressions :
          (npVisits' = npVisits + 1 /\ npLast' = n)
          => IF ~HasToken(n, "(") /\ ~HasToken(n, ")")
             THEN AddsOneReport(n)
             ELSE npReports' = npReports]_vars

\* C10: a NewExpression call reports, once, exactly when the token span
\* lacks a "(" token or lacks a ")" token; a span with both is not reported.
ReportsExactlyWhenNotBothParens ==
    [][\A n \in NewExpressions :
          (npVisits' = npVisits + 1 /\ npLast' = n)
          => IF ~HasToken(n, "(") \/ ~HasToken(n, ")")
             THEN AddsOneReport(n)
             ELSE npReports' = npReports]_vars

NewParensWitness ==
    /\ npVisits = 3
    /\ Len(npReports) = 2
    /\ npReports[1].node = NewFoo
    /\ npReports[2].node = NewFooJsxOpen
    /\ npLast = NewFooCall

\* C11: the fix of a report puts exactly "()" at the end offset of the
\* reported NewExpression and changes nothing else; the fixed expression
\* contains both parentheses and a fresh run does not report it.
FixInsertsParensAtEnd ==
    /\ \A i \in DOMAIN npReports :
          /\ npReports[i].fix.text = <<"(", ")">>
          /\ npReports[i].fix.insertTextAfter = npReports[i].node
    /\ npFixed.node # 0 =>
          LET src == sourceOf(npFixed.node)
              e == rangeOf(npFixed.node)[2]
              span == SubSeq(npFixed.source, npFixed.range[1] + 1, npFixed.range[2])
          IN  /\ npFixed.source =
                    SubSeq(src, 1, e) \o <<LParen, RParen>> \o SubSeq(src, e + 1, Len(src))
              /\ \E k \in DOMAIN span : span[k].value = "("
              /\ \E k \in DOMAIN span : span[k].value = ")"
    /\ npRerun.done => npRerun.reports = <<>>

FixedInnerWitness ==
    /\ npRerun.done
    /\ npFixed.node = NewBarInner
    /\ npFixed.source = <<KwNew, Foo, LParen, KwNew, Bar, LParen, RParen, RParen>>

\*--------------------------------------------------------------------------
\* Properties of valid-typeof (checked under SpecValidTypeof)
\*--------------------------------------------------------------------------

\* the operand of the parent of n that is not n
OppositeOperand(n) ==
    LET p == UNARY_EXPRESSIONS[n].parent
    IN  IF p.left.self THEN p.right ELSE p.left

\* the case in which the claim has the rule report
InvalidComparison(n) ==
    /\ UNARY_EXPRESSIONS[n].operator = "typeof"
    /\ UNARY_EXPRESSIONS[n].parent.type = "BinaryExpression"
    /\ UNARY_EXPRESSIONS[n].parent.operator \in {"==", "===", "!=", "!=="}
    /\ OppositeOperand(n).type = "Literal"
    /\ OppositeOperand(n).value \notin
          {"symbol", "undefined", "object", "boolean", "number", "string", "function"}
    /\ OppositeOperand(n).value \notin Range(customTypes)

\* C12: a UnaryExpression call reports, at the literal operand, exactly
\* when the node is a typeof whose parent is an ==, ===, != or !==
\* comparison with a Literal whose value is neither canonical nor allowed.
ReportsExactlyInvalidComparisons ==
    [][\A n \in UnaryExpressions :
          (vtVisits' = vtVisits + 1 /\ vtLast' = n)
          => IF InvalidComparison(n)
             THEN /\ Len(vtReports') = Len(vtReports) + 1
                  /\ SubSeq(vtReports', 1, Len(vtReports)) = vtReports
                  /\ vtReports'[Len(vtReports')].node = OppositeOperand(n)
                  /\ vtReports'[Len(vtReports')].node.type = "Literal"
             ELSE vtReports' = vtReports]_vars

TypeofWitness ==
    /\ customTypes = <<"bigint">>
    /\ vtVisits = 3
    /\ Len(vtReports) = 2
    /\ vtReports[1].node = Lit("strnig")
    /\ UNARY_EXPRESSIONS[vtReports[1].of].parent.operator = "!="
    /\ UNARY_EXPRESSIONS[vtReports[2].of].parent.left = Lit("strnig")
    /\ OppositeOperand(vtLast) = Lit("bigint")
    /\ UNARY_EXPRESSIONS[vtLast].parent.operator = "==="

\*--------------------------------------------------------------------------
\* Properties of padded-blocks (checked under SpecPaddedBlocks)
\*--------------------------------------------------------------------------

\* the visit ran checkPadding: the node's type has a handler and the node
\* is not empty
PaddedChecked ==
    /\ pbRun.stage # "created"
    /\ pbProgram.node.type \in pbInstance.rule
    /\ pbProgram.node.body > 0

PaddedAlways == requirePaddingFor(pbInstance.options, pbProgram.node)

\* the sides a sequence of reports is about
SidesOf(rs) == {rs[i].side : i \in DOMAIN rs}

\* the report of a side
ReportOf(rs, side) == rs[CHOOSE i \in DOMAIN rs : rs[i].side = side]

\* The blank lines between a brace and the nearest item in direction dir
\* that is not a comment on the brace's own line: 0 when that item is on the
\* brace's line, k - 1 when it is k >= 1 lines away, measured to the item's
\* start line forward and to its end line backward.
BlankLines(text, brace, dir) ==
    LET line == startLine(text, brace)
        near(p) == IF dir = 1 THEN startLine(text, p) ELSE endLine(text, p)
        beyond == {p \in DOMAIN text.items :
                      /\ (IF dir = 1 THEN p > brace ELSE p < brace)
                      /\ ~(isComment(text.items[p]) /\ near(p) = line)}
        nearest == IF dir = 1 THEN Min(beyond) ELSE -Min({-p : p \in beyond})
        k == dir * (near(nearest) - line)
    IN  IF k = 0 THEN 0 ELSE k - 1

TopBlankLines == BlankLines(pbProgram.text, getOpenBrace(pbProgram.text, pbProgram.node), 1)
BottomBlankLines == BlankLines(pbProgram.text, getLastToken(pbProgram.text, pbProgram.node), -1)

\* C13: in both variants the padding computed for a side of a checked node
\* is the number of blank lines between the brace and the nearest item that
\* is not a comment on the brace's line, so that always mode reports a side
\* exactly when it has no blank line and never mode exactly when it has one.
PaddingIsBlankLineCount ==
    PaddedChecked =>
        /\ pbRun.top = TopBlankLines
        /\ pbRun.bottom = BottomBlankLines
        /\ "top" \in SidesOf(pbRun.reports) <=> (PaddedAlways <=> TopBlankLines = 0)
        /\ "bottom" \in SidesOf(pbRun.reports) <=> (PaddedAlways <=> BottomBlankLines = 0)

\* the node types a configuration names: a string, or no option, stands
\* for blocks alone
CategoriesNamed(option) ==
    IF option.type # "object" THEN {"BlockStatement"}
    ELSE {IF k = "blocks" THEN "BlockStatement"
          ELSE IF k = "switches" THEN "SwitchStatement"
          ELSE "ClassBody" : k \in DOMAIN option.object}

\* C14: a string option or none registers a handler for BlockStatement
\* only, an object option for exactly the categories it names, and reports
\* are made only for non-empty nodes of a registered category.
ReportsOnlyConfiguredNonEmpty ==
    /\ pbInstance.rule = CategoriesNamed(pbInstance.config)
    /\ \A rs \in {pbRun.reports, pbRerun.reports} :
          rs # <<>> =>
              /\ pbProgram.node.type \in CategoriesNamed(pbInstance.config)
              /\ pbProgram.node.body > 0

\* a class body that is not empty is visited under an object option that
\* names classes, and is reported
ConfiguredWitness ==
    /\ pbRun.stage = "visited"
    /\ pbInstance.config.type = "object"
    /\ pbProgram.node.type = "ClassBody"
    /\ pbProgram.node.body > 0
    /\ pbProgram.node.type \in pbInstance.rule
    /\ pbRun.reports # <<>>

\* the blank-line count the visit computed for a side
ObservedOn(side) == IF side = "top" THEN pbRun.top ELSE pbRun.bottom

\* C15: in never mode the message of the report for a side ends with
\* " (N blank lines found)" exactly when the count N observed on that side
\* exceeds one, and N is that side's own count.
SuffixStatesOwnSide ==
    (PaddedChecked /\ ~PaddedAlways) =>
        \A i \in DOMAIN pbRun.reports :
            LET r == pbRun.reports[i]
            IN  /\ r.message.text = NEVER_MESSAGE
                /\ r.message.found = (IF ObservedOn(r.side) > 1 THEN ObservedOn(r.side) ELSE 0)

\* an edit that inserts one line break in the white space between the
\* items at positions k and k + 1
InsertsLineBreakAfter(edit, k) ==
    /\ edit.text = <<"\n">>
    /\ edit.range[1] = edit.range[2]
    /\ rangeEnd(k) <= edit.range[1]
    /\ edit.range[1] <= rangeStart(k + 1)

\* C16: in always mode the fix of the top report inserts a line break after
\* the open brace and that of the bottom report one before the close brace,
\* both inside the node, and with the fixes of both sides applied the node
\* is not reported on either side.
AlwaysFixPadsInside ==
    (PaddedChecked /\ PaddedAlways /\ pbInstance.variant = 2) =>
        LET openBrace == getOpenBrace(pbProgram.text, pbProgram.node)
            closeBrace == getLastToken(pbProgram.text, pbProgram.node)
        IN  /\ \A i \in DOMAIN pbRun.reports :
                  LET r == pbRun.reports[i]
                  IN  IF r.side = "top" THEN InsertsLineBreakAfter(r.fix, openBrace)
                      ELSE InsertsLineBreakAfter(r.fix, closeBrace - 1)
            /\ (pbRun.stage = "rechecked" /\ pbFix.applied = SidesOf(pbRun.reports))
                  => pbRerun.reports = <<>>

\* the items of a text that lie within a range
ItemsWithin(text, range) ==
    {k \in DOMAIN text.items : range[1] <= rangeStart(k) /\ rangeEnd(k) <= range[2]}

PaddedNever == PaddedChecked /\ ~PaddedAlways /\ pbInstance.variant = 2

\* C17: in never mode the fix of a report replaces white space between the
\* side's brace and the content by one line break: its range starts at the
\* open brace (ends at the close brace), holds no token and no comment, the
\* ranges of the two sides do not overlap, and once it is applied the side
\* has no blank line and is not reported again.
NeverFixRemovesOnlyWhitespace ==
    PaddedNever =>
        LET text == pbProgram.text
            openBrace == getOpenBrace(text, pbProgram.node)
            closeBrace == getLastToken(text, pbProgram.node)
            rs == pbRun.reports
        IN  /\ \A i \in DOMAIN rs :
                  /\ rs[i].fix.text = <<"\n">>
                  /\ rs[i].fix.range[1] < rs[i].fix.range[2]
                  /\ ItemsWithin(text, rs[i].fix.range) = {}
                  /\ rangeEnd(openBrace) <= rs[i].fix.range[1]
                  /\ rs[i].fix.range[2] <= rangeStart(closeBrace)
                  /\ IF rs[i].side = "top" THEN rs[i].fix.range[1] = rangeEnd(openBrace)
                     ELSE rs[i].fix.range[2] = rangeStart(closeBrace)
            /\ SidesOf(rs) = {"top", "bottom"} =>
                  ReportOf(rs, "top").fix.range[2] <= ReportOf(rs, "bottom").fix.range[1]
            /\ pbRun.stage # "failed"
            /\ pbRun.stage = "rechecked" =>
                  /\ "top" \in pbFix.applied =>
                        pbRerun.top = 0 /\ "top" \notin SidesOf(pbRerun.reports)
                  /\ "bottom" \in pbFix.applied =>
                        pbRerun.bottom = 0 /\ "bottom" \notin SidesOf(pbRerun.reports)

\* both sides of a block are reported, a comment on the line of each brace
\* stands between the brace and the blank lines, both fixes are applied
\* and the node is checked again
NeverFixWitness ==
    /\ PaddedNever
    /\ pbRun.stage = "rechecked"
    /\ pbFix.applied = {"top", "bottom"}
    /\ LET text == pbProgram.text
           openBrace == getOpenBrace(text, pbProgram.node)
           closeBrace == getLastToken(text, pbProgram.node)
       IN  /\ isComment(text.items[openBrace + 1])
           /\ startLine(text, openBrace + 1) = startLine(text, openBrace)
           /\ isComment(text.items[closeBrace - 1])
           /\ endLine(text, closeBrace - 1) = startLine(text, closeBrace)
           /\ pbRun.top > 1
           /\ pbRun.bottom > 1
    /\ pbRerun.reports = <<>>

\*--------------------------------------------------------------------------
\* Properties of snakeToCamelCase (checked under SpecConvert)
\*--------------------------------------------------------------------------

\* C18: snakeToCamelCase returns a name that isSnakeCase does not take for
\* snake-cased as it is.
ConvertKeepsOtherNames == (conv.done /\ ~conv.snake) => conv.out = conv.name

\*--------------------------------------------------------------------------
\* Properties of two camelcase instances (checked under SpecTwoInstances)
\*--------------------------------------------------------------------------

\* the state of an instance that is alone and has made the given visits
RECURSIVE Alone(_, _)
Alone(props, visits) ==
    IF visits = <<>>
    THEN [properties |-> props, reported |-> <<>>, lastIndex |-> 0, reports |-> <<>>]
    ELSE IdentifierOn(Alone(props, SubSeq(visits, 1, Len(visits) - 1)),
                      visits[Len(visits)])

\* C19: under any interleaving of the visits of two instances, the reports
\* of each, its reported list and the lastIndex of its regular expression
\* are those of an instance that made the same visits alone.
InstancesShareNoState ==
    \A k \in Instances :
        LET alone == Alone(two.properties[k], two.visits[k])
        IN  /\ two.reports[k] = alone.reports
            /\ two.reported[reportedOf(k)] = alone.reported
            /\ two.lastIndex[regexOf(k)] = alone.lastIndex

\* the visits alternate between the instances, and both report the same
\* node
BothReportSameNode ==
    /\ Len(two.order) >= 4
    /\ \A i \in 1..(Len(two.order) - 1) : two.order[i] # two.order[i + 1]
    /\ \E node \in TwoNodes :
          \A k \in Instances : \E i \in DOMAIN two.reports[k] : two.reports[k][i].node = node

====
